---- MODULE Spec2Model ----
(***************************************************************************)
(* COCO JSON -> SQLite ingestion (coco-to-sqlite-convert.py) and the       *)
(* filtered extraction back to COCO JSON (extract-subset-from-sqlite.py).  *)
(*                                                                         *)
(* Values.  A decoded JSON value / SQL value is a tagged record:           *)
(*   [k |-> "int",   n |-> i]      Python int                              *)
(*   [k |-> "dec",   n |-> t]      decimal.Decimal (ijson), t in tenths    *)
(*   [k |-> "float", n |-> t]      Python float / SQL REAL, t in tenths    *)
(*   [k |-> "str",   s |-> chars]  Python str / SQL TEXT, a seq of chars   *)
(*   [k |-> "null"]                None / SQL NULL                         *)
(*   [k |-> "list",  items |-> seq of values]                              *)
(*   [k |-> "dict",  m |-> function from key to value]                     *)
(*   [k |-> "text",  toks |-> seq of JSON tokens]  a str holding JSON text *)
(* A JSON object of the COCO document (a category, an image, an            *)
(* annotation) is a TLA+ record whose DOMAIN is the set of keys present.   *)
(***************************************************************************)
EXTENDS Integers, Sequences, FiniteSets, TLC

\* ------------------------------------------------------------------------
\* Bounds of the model
\* ------------------------------------------------------------------------
\* records read from one document (all three arrays together)
MaxRecords == 6
\* largest batch threshold tried in place of BATCH_SIZE = 10000
MaxBatch == 2
\* largest chunk size tried in place of chunk_size = 1000
MaxChunk == 2
\* rows per table of an arbitrary store handed to the extraction
MaxRows == 2

\* ------------------------------------------------------------------------
\* Values
\* ------------------------------------------------------------------------
Int_(i) == [k |-> "int", n |-> i]
Dec(t) == [k |-> "dec", n |-> t]
Float(t) == [k |-> "float", n |-> t]
Str(chars) == [k |-> "str", s |-> chars]
Null == [k |-> "null"]
List(items) == [k |-> "list", items |-> items]
Dict(m) == [k |-> "dict", m |-> m]
Text(toks) == [k |-> "text", toks |-> toks]

\* the result of an operation that may raise
Ok(v) == [ok |-> TRUE, v |-> v]
Raise(e) == [ok |-> FALSE, err |-> e]

\* dict.get(key, default) on a JSON object
Get(obj, key, default) == IF key \in DOMAIN obj THEN obj[key] ELSE default

SeqToSet(s) == {s[j] : j \in 1..Len(s)}

RECURSIVE Pick(_, _)
\* [s[j] for j in range(len(s)) if keep[j]]
Pick(s, keep) ==
    IF s = <<>> THEN <<>>
    ELSE (IF keep[1] THEN <<Head(s)>> ELSE <<>>)
         \o Pick(Tail(s), [j \in 1..(Len(s) - 1) |-> keep[j + 1]])

\* the decimal digits int() and float() accept in a str
DigitChars == {"0", "1", "2", "3", "4", "5", "6", "7", "8", "9"}
DigitVal(c) ==
    CASE c = "0" -> 0 [] c = "1" -> 1 [] c = "2" -> 2 [] c = "3" -> 3
      [] c = "4" -> 4 [] c = "5" -> 5 [] c = "6" -> 6 [] c = "7" -> 7
      [] c = "8" -> 8 [] c = "9" -> 9

RECURSIVE DigitsVal(_)
DigitsVal(chars) ==
    IF chars = <<>> THEN 0
    ELSE 10 * DigitsVal(SubSeq(chars, 1, Len(chars) - 1))
         + DigitVal(chars[Len(chars)])

IsDigits(chars) == chars # <<>> /\ \A j \in 1..Len(chars) : chars[j] \in DigitChars

\* truncation toward zero of t tenths
Trunc(t) == IF t >= 0 THEN t \div 10 ELSE -((-t) \div 10)

\* Python int(v)
PyInt(v) ==
    CASE v.k = "int" -> Ok(Int_(v.n))
      [] v.k \in {"dec", "float"} -> Ok(Int_(Trunc(v.n)))
      [] v.k = "str" ->
            IF IsDigits(v.s) THEN Ok(Int_(DigitsVal(v.s))) ELSE Raise("ValueError")
      [] OTHER -> Raise("TypeError")

\* Python float(v)
PyFloat(v) ==
    CASE v.k = "int" -> Ok(Float(10 * v.n))
      [] v.k \in {"dec", "float"} -> Ok(Float(v.n))
      [] v.k = "str" ->
            IF IsDigits(v.s) THEN Ok(Float(10 * DigitsVal(v.s))) ELSE Raise("ValueError")
      [] OTHER -> Raise("TypeError")

\* str.strip(): surrounding blanks removed
RECURSIVE LStrip(_)
LStrip(chars) ==
    IF chars # <<>> /\ Head(chars) = " " THEN LStrip(Tail(chars)) ELSE chars

RECURSIVE RStrip(_)
RStrip(chars) ==
    IF chars # <<>> /\ chars[Len(chars)] = " "
    THEN RStrip(SubSeq(chars, 1, Len(chars) - 1))
    ELSE chars

Strip(chars) == RStrip(LStrip(chars))

\* a bug: the stored path is compared as it is, .name forgotten
PathNameWhole(chars) == chars

\* the final path component of a path, trailing separators dropped
RECURSIVE DropTrailingSep(_)
DropTrailingSep(chars) ==
    IF chars # <<>> /\ chars[Len(chars)] = "/"
    THEN DropTrailingSep(SubSeq(chars, 1, Len(chars) - 1))
    ELSE chars

RECURSIVE LastComponent(_)
LastComponent(chars) ==
    IF chars = <<>> \/ chars[Len(chars)] = "/" THEN <<>>
    ELSE Append(LastComponent(SubSeq(chars, 1, Len(chars) - 1)), chars[Len(chars)])

\* pathlib: Path(p).name
PathName(chars) == LastComponent(DropTrailingSep(chars))

\* ------------------------------------------------------------------------
\* normalize_json_numbers, json.dumps, json.loads
\* ------------------------------------------------------------------------
\* a bug: only a top-level Decimal is converted, containers are not entered
NormalizeShallow(obj) == IF obj.k = "dec" THEN Float(obj.n) ELSE obj

RECURSIVE normalize_json_numbers(_)
normalize_json_numbers(obj) ==
    CASE obj.k = "dec" -> Float(obj.n)
      [] obj.k = "list" ->
            List([j \in 1..Len(obj.items) |-> normalize_json_numbers(obj.items[j])])
      [] obj.k = "dict" ->
            Dict([key \in DOMAIN obj.m |-> normalize_json_numbers(obj.m[key])])
      [] OTHER -> obj

\* json.dumps raises TypeError on a Decimal anywhere in the value
RECURSIVE Serializable(_)
Serializable(v) ==
    CASE v.k = "dec" -> FALSE
      [] v.k = "list" -> \A j \in 1..Len(v.items) : Serializable(v.items[j])
      [] v.k = "dict" -> \A key \in DOMAIN v.m : Serializable(v.m[key])
      [] OTHER -> TRUE

Tok(t) == [t |-> t]

RECURSIVE Tokens(_), ItemTokens(_), MemberTokens(_, _)
\* the JSON text of a value, as its sequence of tokens
Tokens(v) ==
    CASE v.k = "int" -> <<[t |-> "int", n |-> v.n]>>
      [] v.k = "float" -> <<[t |-> "real", n |-> v.n]>>
      [] v.k = "str" -> <<[t |-> "string", s |-> v.s]>>
      [] v.k = "null" -> <<Tok("null")>>
      [] v.k = "list" -> <<Tok("[")>> \o ItemTokens(v.items) \o <<Tok("]")>>
      [] v.k = "dict" -> <<Tok("{")>> \o MemberTokens(v.m, DOMAIN v.m) \o <<Tok("}")>>
      [] v.k = "text" -> <<[t |-> "quoted", toks |-> v.toks]>>

ItemTokens(items) ==
    IF items = <<>> THEN <<>>
    ELSE IF Len(items) = 1 THEN Tokens(items[1])
    ELSE Tokens(items[1]) \o <<Tok(",")>> \o ItemTokens(Tail(items))

MemberTokens(m, keys) ==
    IF keys = {} THEN <<>>
    ELSE LET key == CHOOSE x \in keys : TRUE
             one == <<[t |-> "key", name |-> key], Tok(":")>> \o Tokens(m[key])
         IN  IF keys = {key} THEN one
             ELSE one \o <<Tok(",")>> \o MemberTokens(m, keys \ {key})

json_dumps(v) == IF Serializable(v) THEN Ok(Text(Tokens(v))) ELSE Raise("TypeError")

\* the JSON parser: a parse is [ok, v, rest]
Parsed(v, rest) == [ok |-> TRUE, v |-> v, rest |-> rest]
NoParse == [ok |-> FALSE]

RECURSIVE ParseValue(_), ParseItems(_, _), ParseMembers(_, _)
ParseValue(toks) ==
    IF toks = <<>> THEN NoParse
    ELSE LET h == Head(toks)
             r == Tail(toks)
         IN  CASE h.t = "int" -> Parsed(Int_(h.n), r)
               [] h.t = "real" -> Parsed(Float(h.n), r)
               [] h.t = "string" -> Parsed(Str(h.s), r)
               [] h.t = "quoted" -> Parsed(Text(h.toks), r)
               [] h.t = "null" -> Parsed(Null, r)
               [] h.t = "[" ->
                     IF r # <<>> /\ Head(r).t = "]" THEN Parsed(List(<<>>), Tail(r))
                     ELSE ParseItems(r, <<>>)
               [] h.t = "{" ->
                     IF r # <<>> /\ Head(r).t = "}" THEN Parsed(Dict(<<>>), Tail(r))
                     ELSE ParseMembers(r, <<>>)
               [] OTHER -> NoParse

ParseItems(toks, acc) ==
    LET p == ParseValue(toks)
    IN  IF ~p.ok \/ p.rest = <<>> THEN NoParse
        ELSE IF Head(p.rest).t = "," THEN ParseItems(Tail(p.rest), Append(acc, p.v))
        ELSE IF Head(p.rest).t = "]" THEN Parsed(List(Append(acc, p.v)), Tail(p.rest))
        ELSE NoParse

ParseMembers(toks, acc) ==
    IF Len(toks) < 3 \/ toks[1].t # "key" \/ toks[2].t # ":" THEN NoParse
    ELSE LET p == ParseValue(SubSeq(toks, 3, Len(toks)))
             m == (toks[1].name :> p.v) @@ acc
         IN  IF ~p.ok \/ p.rest = <<>> THEN NoParse
             ELSE IF Head(p.rest).t = "," THEN ParseMembers(Tail(p.rest), m)
             ELSE IF Head(p.rest).t = "}" THEN Parsed(Dict(m), Tail(p.rest))
             ELSE NoParse

\* json.loads(s): TypeError unless s is a str, JSONDecodeError unless all of
\* it is one JSON value
json_loads(s) ==
    CASE s.k = "text" ->
            LET p == ParseValue(s.toks)
            IN  IF p.ok /\ p.rest = <<>> THEN Ok(p.v) ELSE Raise("JSONDecodeError")
      [] s.k = "str" ->
            IF IsDigits(s.s) THEN Ok(Int_(DigitsVal(s.s))) ELSE Raise("JSONDecodeError")
      [] OTHER -> Raise("TypeError")

\* ------------------------------------------------------------------------
\* The store: tables are sequences of rows in insertion order
\* ------------------------------------------------------------------------
Kinds == <<"categories", "images", "annotations">>

\* create_tables: the three tables dropped and recreated, no index left
EmptyDb ==
    [exists |-> TRUE, categories |-> <<>>, images |-> <<>>, annotations |-> <<>>,
     indexes |-> FALSE]

\* no database file yet
NoDb == [EmptyDb EXCEPT !.exists = FALSE]

\* what sqlite3 binds as a statement parameter: int, float, str, None
Bindable(v) == v.k \in {"int", "float", "str", "text", "null"}

RowIds(table) == {table[j].id.n : j \in 1..Len(table)}

MaxOf(S) == IF S = {} THEN 0 ELSE CHOOSE x \in S : \A y \in S : y <= x

\* the rowid an INTEGER PRIMARY KEY column takes from the bound value
PrimaryKey(v, table) ==
    CASE v.k = "int" -> Ok(v.n)
      [] v.k = "null" -> Ok(MaxOf(RowIds(table)) + 1)
      [] v.k = "float" ->
            IF v.n % 10 = 0 THEN Ok(v.n \div 10) ELSE Raise("IntegrityError")
      [] v.k = "str" ->
            IF IsDigits(v.s) THEN Ok(DigitsVal(v.s)) ELSE Raise("IntegrityError")
      [] OTHER -> Raise("IntegrityError")

\* one INSERT of executemany: binding, then the primary key constraint
InsertRow(table, row) ==
    IF \E col \in DOMAIN row : ~Bindable(row[col]) THEN Raise("InterfaceError")
    ELSE LET pk == PrimaryKey(row.id, table)
         IN  IF ~pk.ok THEN pk
             ELSE IF pk.v \in RowIds(table) THEN Raise("IntegrityError")
             ELSE Ok(Append(table, [row EXCEPT !.id = Int_(pk.v)]))

RECURSIVE insert_batch(_, _)
\* cursor.executemany(sql, batch): the rows in order, stopping at the first
\* one that fails
insert_batch(table, batch) ==
    IF batch = <<>> THEN Ok(table)
    ELSE LET one == InsertRow(table, Head(batch))
         IN  IF one.ok THEN insert_batch(one.v, Tail(batch)) ELSE one

\* ------------------------------------------------------------------------
\* The tuple each stream_* function appends for one decoded record
\* ------------------------------------------------------------------------
CategoryRow(cat) ==
    IF ~({"id", "name"} \subseteq DOMAIN cat) THEN Raise("KeyError")
    ELSE IF cat.name.k # "str" THEN Raise("AttributeError")
    ELSE Ok([id |-> cat.id,
             name |-> Str(Strip(cat.name.s)),
             supercategory |-> Get(cat, "supercategory", Str(<<>>))])

ImageRow(img) ==
    IF ~({"id", "file_name", "width", "height"} \subseteq DOMAIN img)
    THEN Raise("KeyError")
    ELSE Ok([id |-> img.id,
             file_name |-> img.file_name,
             width |-> img.width,
             height |-> img.height,
             license |-> Get(img, "license", Null),
             flickr_url |-> Get(img, "flickr_url", Null),
             coco_url |-> Get(img, "coco_url", Null),
             date_captured |-> Get(img, "date_captured", Null)])

\* the first of the results that raised, in evaluation order
FirstError(results) ==
    LET bad == {j \in 1..Len(results) : ~results[j].ok}
    IN  results[CHOOSE j \in bad : \A l \in bad : j <= l]

AnnotationRow(ann) ==
    LET bbox == normalize_json_numbers(Get(ann, "bbox", List(<<>>)))
        segmentation == normalize_json_numbers(Get(ann, "segmentation", List(<<>>)))
        area == Get(ann, "area", Float(0))
        iscrowd == Get(ann, "iscrowd", Int_(0))
        Key(name) == IF name \in DOMAIN ann THEN PyInt(ann[name]) ELSE Raise("KeyError")
        fields == <<Key("id"), Key("image_id"), Key("category_id"), json_dumps(bbox),
                    PyFloat(area), PyInt(iscrowd), json_dumps(segmentation)>>
    IN  IF \E j \in 1..Len(fields) : ~fields[j].ok THEN FirstError(fields)
        ELSE Ok([id |-> fields[1].v,
                 image_id |-> fields[2].v,
                 category_id |-> fields[3].v,
                 bbox |-> fields[4].v,
                 area |-> fields[5].v,
                 iscrowd |-> fields[6].v,
                 segmentation |-> fields[7].v])

RowOf(kind, rec) ==
    CASE kind = "categories" -> CategoryRow(rec)
      [] kind = "images" -> ImageRow(rec)
      [] kind = "annotations" -> AnnotationRow(rec)

\* ------------------------------------------------------------------------
\* State
\* ------------------------------------------------------------------------
VARIABLES
    db,                     \* the committed content of the SQLite file
    src,                    \* the records ijson has yielded so far, per array
    BATCH_SIZE,             \* the batch threshold of this run
    batch,                  \* the batch list of the running stream_* function
    flushes,                \* per kind, the sizes of the bulk inserts committed
    pc,                     \* <<function, place>> of the single thread
    err,                    \* <<>>, or <<[type, at]>> once an exception escaped
    target_images,          \* set(os.listdir(image_path))
    target_category_names,  \* the argument (None and [] are both <<>>)
    target_category_ids,    \* the argument, then the resolved, deduplicated list
    chunk_size,             \* the chunk size of this run
    filtered_image_info,
    filtered_image_ids,
    filtered_annotations,
    processed_categories,
    i,                      \* the chunk loop's range position
    fs,                     \* base_output_dir/split_name and patch_{n}.json in it
    io                      \* how often the run called mkdir and wrote the file

ingest_vars == <<db, src, BATCH_SIZE, batch, flushes>>
extract_vars ==
    <<target_images, target_category_names, target_category_ids, chunk_size,
      filtered_image_info, filtered_image_ids, filtered_annotations,
      processed_categories, i, fs, io>>
vars == <<ingest_vars, extract_vars, pc, err>>

NoRecords == [categories |-> <<>>, images |-> <<>>, annotations |-> <<>>]

Failed(type) == <<[type |-> type, at |-> pc]>>

\* ------------------------------------------------------------------------
\* build_coco_database_streaming
\* ------------------------------------------------------------------------
\* connect, create_tables(cursor), conn.commit()
CreateTables ==
    /\ pc = <<"main", "create_tables">>
    /\ db' = EmptyDb
    /\ batch' = <<>>
    /\ pc' = <<"categories", "for">>
    /\ UNCHANGED <<src, BATCH_SIZE, flushes, err, extract_vars>>

\* the statement after stream_<kind> returns
AfterStream(kind) ==
    CASE kind = "categories" -> <<"images", "for">>
      [] kind = "images" -> <<"annotations", "for">>
      [] kind = "annotations" -> <<"main", "create_indexes">>

\* insert_batch(cursor, sql, batch); conn.commit(): the committed table, or
\* the exception of executemany (nothing of the batch is then committed)
Flush(kind) == insert_batch(db[kind], batch)

\* a bug: the pending batch is written and committed before the exception
\* leaves the function
AbortFlushing(kind, type) ==
    /\ pc' = <<"main", "error">>
    /\ err' = Failed(type)
    /\ db' = [db EXCEPT ![kind] = IF Flush(kind).ok THEN Flush(kind).v ELSE @]
    /\ UNCHANGED <<flushes, batch>>

\* an exception in stream_<kind>: nothing catches it, the pending batch is
\* neither inserted nor committed, build_coco_database_streaming ends
Abort(kind, type) ==
    /\ pc' = <<"main", "error">>
    /\ err' = Failed(type)
    /\ UNCHANGED <<db, flushes, batch>>

\* a bug: the threshold test lets the batch grow one past BATCH_SIZE
BatchFullLate == Len(batch) > BATCH_SIZE

\* `len(batch) >= BATCH_SIZE`
BatchFull == Len(batch) >= BATCH_SIZE

\* a bug: the rest of the records is written only when it is a full batch
BatchLeftOnlyFull == Len(batch) >= BATCH_SIZE

\* `if batch:` after the loop
BatchLeft == batch # <<>>

\* one iteration of `for rec in ijson.items(...)` up to batch.append(...)
StreamNext(kind, rec) ==
    /\ pc = <<kind, "for">>
    /\ Len(src.categories) + Len(src.images) + Len(src.annotations) < MaxRecords
    /\ src' = [src EXCEPT ![kind] = Append(@, rec)]
    /\ LET row == RowOf(kind, rec)
       IN  IF row.ok
           THEN /\ batch' = Append(batch, row.v)
                /\ pc' = <<kind, "if">>
                /\ err' = err
                /\ UNCHANGED <<db, flushes>>
           ELSE Abort(kind, row.err)
    /\ UNCHANGED <<BATCH_SIZE, extract_vars>>

\* `if len(batch) >= BATCH_SIZE:` insert, commit, clear
StreamCheck(kind) ==
    /\ pc = <<kind, "if">>
    /\ IF BatchFull
       THEN LET done == Flush(kind)
            IN  IF done.ok
                THEN /\ db' = [db EXCEPT ![kind] = done.v]
                     /\ flushes' = [flushes EXCEPT ![kind] = Append(@, Len(batch))]
                     /\ batch' = <<>>
                     /\ pc' = <<kind, "for">>
                     /\ err' = err
                ELSE Abort(kind, done.err)
       ELSE /\ pc' = <<kind, "for">>
            /\ UNCHANGED <<db, flushes, batch, err>>
    /\ UNCHANGED <<src, BATCH_SIZE, extract_vars>>

\* the array is exhausted: `if batch:` insert, commit; the function returns
\* and the next one starts with its own `batch = []`
StreamEnd(kind) ==
    /\ pc = <<kind, "for">>
    /\ IF BatchLeft
       THEN LET done == Flush(kind)
            IN  IF done.ok
                THEN /\ db' = [db EXCEPT ![kind] = done.v]
                     /\ flushes' = [flushes EXCEPT ![kind] = Append(@, Len(batch))]
                     /\ batch' = <<>>
                     /\ pc' = AfterStream(kind)
                     /\ err' = err
                ELSE Abort(kind, done.err)
       ELSE /\ pc' = AfterStream(kind)
            /\ UNCHANGED <<db, flushes, batch, err>>
    /\ UNCHANGED <<src, BATCH_SIZE, extract_vars>>

\* create_indexes(cursor, conn); conn.close()
CreateIndexes ==
    /\ pc = <<"main", "create_indexes">>
    /\ db' = [db EXCEPT !.indexes = TRUE]
    /\ pc' = <<"main", "done">>
    /\ UNCHANGED <<src, BATCH_SIZE, batch, flushes, err, extract_vars>>

\* ------------------------------------------------------------------------
\* extract_coco_subset_from_db
\* ------------------------------------------------------------------------
RECURSIVE InsertById(_, _)
InsertById(row, rows) ==
    IF rows = <<>> THEN <<row>>
    ELSE IF row.id.n < Head(rows).id.n THEN <<row>> \o rows
    ELSE <<Head(rows)>> \o InsertById(row, Tail(rows))

RECURSIVE ByRowid(_)
\* the order in which SQLite scans a table: by rowid, which the INTEGER
\* PRIMARY KEY column is
ByRowid(table) ==
    IF table = <<>> THEN <<>> ELSE InsertById(Head(table), ByRowid(Tail(table)))

RECURSIVE SetToSeq(_)
SetToSeq(S) ==
    IF S = {} THEN <<>>
    ELSE LET x == CHOOSE y \in S : TRUE IN <<x>> \o SetToSeq(S \ {x})

RECURSIVE NameToId(_)
\* category_name_to_id after the loop over `SELECT id, name FROM categories`:
\* a later row replaces an earlier one of the same name
NameToId(rows) ==
    IF rows = <<>> THEN <<>>
    ELSE LET last == rows[Len(rows)]
         IN  (last.name :> last.id) @@ NameToId(SubSeq(rows, 1, Len(rows) - 1))

RECURSIVE ResolveNames(_, _)
\* resolved_ids: the ids of the names found, a name not found is skipped
ResolveNames(names, map) ==
    IF names = <<>> THEN <<>>
    ELSE IF Head(names) \notin DOMAIN map THEN ResolveNames(Tail(names), map)
    ELSE <<map[Head(names)]>> \o ResolveNames(Tail(names), map)

\* target_category_ids after lines 56-67
ResolvedCategoryIds(names, ids, categories) ==
    LET given == IF names # <<>>
                 THEN ResolveNames(names, NameToId(ByRowid(categories)))
                 ELSE ids
    IN  IF given # <<>> THEN SetToSeq(SeqToSet(given)) ELSE given

\* lines 33-67: the path checks, os.listdir, the category resolution
ExtractEnter(image_dir, names, ids) ==
    /\ pc \in {<<"extract", "start">>, <<"main", "done">>}
    /\ target_category_names' = names
    /\ IF ~db.exists
       THEN /\ pc' = <<"extract", "error">>
            /\ err' = Failed("FileNotFoundError")
            /\ UNCHANGED <<target_images, target_category_ids>>
       ELSE IF ~image_dir.is_dir
       THEN /\ pc' = <<"extract", "error">>
            /\ err' = Failed("NotADirectoryError")
            /\ UNCHANGED <<target_images, target_category_ids>>
       ELSE /\ target_images' = image_dir.files
            /\ target_category_ids' = ResolvedCategoryIds(names, ids, db.categories)
            /\ pc' = <<"extract", "images">>
            /\ err' = err
    /\ UNCHANGED <<ingest_vars, chunk_size, filtered_image_info, filtered_image_ids,
                   filtered_annotations, processed_categories, i, fs, io>>

\* `file_name in target_images`
Present(file_name, present) == file_name \in present

\* the dict appended for an image row
ImageInfo(row) == [row EXCEPT !.file_name = Str(PathName(row.file_name.s))]

InTargets(row, present) == Present(PathName(row.file_name.s), present)

\* a bug: the empty result is not noticed
NoImageFoundNever(ids) == FALSE

\* `if not filtered_image_ids:`
NoImageFound(ids) == ids = <<>>

\* lines 69-108: the loop over the images table, then the empty check
SelectImages ==
    /\ pc = <<"extract", "images">>
    /\ LET rows == ByRowid(db.images)
           kept == Pick(rows, [j \in 1..Len(rows) |-> InTargets(rows[j], target_images)])
       IN  IF \E j \in 1..Len(rows) : rows[j].file_name.k # "str"
           THEN /\ pc' = <<"extract", "error">>
                /\ err' = Failed("TypeError")
                /\ UNCHANGED <<filtered_image_info, filtered_image_ids>>
           ELSE /\ filtered_image_info' = [j \in 1..Len(kept) |-> ImageInfo(kept[j])]
                /\ filtered_image_ids' = [j \in 1..Len(kept) |-> kept[j].id]
                /\ IF NoImageFound(filtered_image_ids')
                   THEN pc' = <<"extract", "error">> /\ err' = Failed("RuntimeError")
                   ELSE pc' = <<"extract", "annotations">> /\ err' = err
    /\ i' = 0
    /\ UNCHANGED <<ingest_vars, target_images, target_category_names,
                   target_category_ids, chunk_size, filtered_annotations,
                   processed_categories, fs, io>>

Min(a, b) == IF a < b THEN a ELSE b

\* a bug: the slice stops one short, the last id of a chunk is skipped
ChunkIdsShort(ids, from, size) == SubSeq(ids, from + 1, Min(from + size - 1, Len(ids)))

\* filtered_image_ids[i : i + chunk_size]
ChunkIds(ids, from, size) == SubSeq(ids, from + 1, Min(from + size, Len(ids)))

\* a bug: with a category filter the image constraint is dropped
MatchesQueryLoose(row, q) ==
    IF q.category_ids # <<>>
    THEN row.category_id \in SeqToSet(q.category_ids)
    ELSE row.image_id \in SeqToSet(q.chunk_ids)

\* WHERE image_id IN (chunk) [AND category_id IN (target_category_ids)]
MatchesQuery(row, q) ==
    /\ row.image_id \in SeqToSet(q.chunk_ids)
    /\ q.category_ids # <<>> => row.category_id \in SeqToSet(q.category_ids)

\* try: json.loads(column) except Exception: []
DecodeOrEmpty(column) ==
    LET parsed == json_loads(column) IN IF parsed.ok THEN parsed.v ELSE List(<<>>)

\* the dict appended for an annotation row
AnnotationInfo(row) ==
    [row EXCEPT !.bbox = DecodeOrEmpty(row.bbox),
                !.segmentation = DecodeOrEmpty(row.segmentation)]

\* the annotations one query of the chunk loop appends
ChunkAnnotations(table, chunk_ids, category_ids) ==
    LET scan == ByRowid(table)
        q == [chunk_ids |-> chunk_ids, category_ids |-> category_ids]
        rows == Pick(scan, [j \in 1..Len(scan) |-> MatchesQuery(scan[j], q)])
    IN  [j \in 1..Len(rows) |-> AnnotationInfo(rows[j])]

\* lines 113-158: one iteration of the chunk loop
FetchChunk ==
    /\ pc = <<"extract", "annotations">>
    /\ i < Len(filtered_image_ids)
    /\ filtered_annotations' =
          filtered_annotations
          \o ChunkAnnotations(db.annotations,
                              ChunkIds(filtered_image_ids, i, chunk_size),
                              target_category_ids)
    /\ i' = i + chunk_size
    /\ UNCHANGED <<ingest_vars, target_images, target_category_names,
                   target_category_ids, chunk_size, filtered_image_info,
                   filtered_image_ids, processed_categories, fs, io, pc, err>>

\* `if not target_category_ids or cat_id in target_category_ids`
CategoryWanted(row, category_ids) ==
    category_ids = <<>> \/ row.id \in SeqToSet(category_ids)

\* lines 160-181: the chunk range is exhausted; the categories, conn.close()
SelectCategories ==
    /\ pc = <<"extract", "annotations">>
    /\ i >= Len(filtered_image_ids)
    /\ LET scan == ByRowid(db.categories)
       IN  processed_categories' =
              Pick(scan, [j \in 1..Len(scan) |-> CategoryWanted(scan[j], target_category_ids)])
    /\ pc' = <<"extract", "save">>
    /\ UNCHANGED <<ingest_vars, target_images, target_category_names,
                   target_category_ids, chunk_size, filtered_image_info,
                   filtered_image_ids, filtered_annotations, i, fs, io, err>>

\* new_coco_data (info and licenses are fixed)
NewCocoData ==
    [images |-> filtered_image_info,
     annotations |-> filtered_annotations,
     categories |-> processed_categories]

\* lines 183-191: mkdir(parents=True, exist_ok=True), json.dump to the file
Save ==
    /\ pc = <<"extract", "save">>
    /\ fs' = [dir_exists |-> TRUE, file |-> <<NewCocoData>>]
    /\ io' = [mkdir |-> io.mkdir + 1, write |-> io.write + 1]
    /\ pc' = <<"extract", "done">>
    /\ UNCHANGED <<ingest_vars, target_images, target_category_names,
                   target_category_ids, chunk_size, filtered_image_info,
                   filtered_image_ids, filtered_annotations, processed_categories,
                   i, err>>

\* ------------------------------------------------------------------------
\* Input documents
\* ------------------------------------------------------------------------
Chars_cat == <<"c", "a", "t">>
Chars_dog == <<"d", "o", "g">>
Chars_dog_padded == <<" ", "d", "o", "g", " ">>
Chars_a == <<"a">>
Chars_b == <<"b">>
Chars_dir_b == <<"d", "/", "b">>

Category1 == [id |-> Int_(1), name |-> Str(Chars_cat), supercategory |-> Str(<<"p">>)]
\* no supercategory, a name with surrounding blanks
Category2 == [id |-> Int_(2), name |-> Str(Chars_dog_padded)]
\* no name
CategoryNoName == [id |-> Int_(3)]

Image1 ==
    [id |-> Int_(1), file_name |-> Str(Chars_a), width |-> Int_(4), height |-> Int_(3),
     license |-> Int_(1), flickr_url |-> Str(<<"f">>), coco_url |-> Str(<<"u">>),
     date_captured |-> Str(<<"t">>)]
\* only the required keys, a file name with a directory
Image2 ==
    [id |-> Int_(2), file_name |-> Str(Chars_dir_b), width |-> Int_(4), height |-> Int_(3)]
\* an id sqlite3 cannot bind
ImageDecimalId ==
    [id |-> Dec(15), file_name |-> Str(Chars_a), width |-> Int_(4), height |-> Int_(3)]

Annotation1 ==
    [id |-> Int_(1), image_id |-> Int_(1), category_id |-> Int_(1),
     bbox |-> List(<<Int_(1), Int_(2), Int_(3), Int_(4)>>),
     area |-> Dec(120), iscrowd |-> Int_(0),
     segmentation |-> List(<<List(<<Dec(15), Int_(2), Dec(35), Int_(4)>>)>>)]
\* decimal box, integer area, run-length segmentation
Annotation2 ==
    [id |-> Int_(2), image_id |-> Int_(2), category_id |-> Int_(2),
     bbox |-> List(<<Dec(5), Dec(15), Int_(2), Int_(2)>>),
     area |-> Int_(4), iscrowd |-> Int_(1),
     segmentation |-> Dict([counts |-> List(<<Int_(3), Int_(1)>>),
                            size |-> List(<<Int_(3), Int_(4)>>)])]
\* detection only: no area, iscrowd, segmentation
Annotation3 ==
    [id |-> Int_(3), image_id |-> Int_(1), category_id |-> Int_(2),
     bbox |-> List(<<Int_(0), Int_(0), Int_(1), Int_(1)>>)]
\* references neither an image nor a category of the document
AnnotationDangling ==
    [id |-> Int_(4), image_id |-> Int_(9), category_id |-> Int_(9),
     bbox |-> List(<<>>), area |-> Int_(0), iscrowd |-> Int_(0),
     segmentation |-> List(<<>>)]
\* int() raises ValueError on the id
AnnotationBadId == [Annotation1 EXCEPT !.id = Str(<<"x">>)]
\* float() raises TypeError on the area
AnnotationNullArea == [Annotation2 EXCEPT !.area = Null]

\* what a document of any content may hold
AnyRecords ==
    [categories |-> {Category1, Category2, CategoryNoName},
     images |-> {Image1, Image2, ImageDecimalId},
     annotations |-> {Annotation1, Annotation2, Annotation3, AnnotationDangling,
                      AnnotationBadId, AnnotationNullArea}]

\* what a valid COCO document may hold
ValidRecords ==
    [categories |-> {Category1, Category2},
     images |-> {Image1, Image2},
     annotations |-> {Annotation1, Annotation2, Annotation3}]

IdsOf(records) == {records[j].id : j \in 1..Len(records)}

\* rec keeps the document read so far a valid COCO document: ids unique
\* within the array, every reference resolved
KeepsValid(kind, rec) ==
    /\ rec.id \notin IdsOf(src[kind])
    /\ kind = "annotations" =>
          /\ rec.image_id \in IdsOf(src.images)
          /\ rec.category_id \in IdsOf(src.categories)

\* ------------------------------------------------------------------------
\* Specifications
\* ------------------------------------------------------------------------
\* a patch file left by an earlier run
OldDocument == [images |-> <<>>, annotations |-> <<>>, categories |-> <<>>]

NoOutput == [dir_exists |-> FALSE, file |-> <<>>]
OldOutput == [dir_exists |-> TRUE, file |-> <<OldDocument>>]

InitExtractVars ==
    /\ target_images = {}
    /\ target_category_names = <<>>
    /\ target_category_ids = <<>>
    /\ filtered_image_info = <<>>
    /\ filtered_image_ids = <<>>
    /\ filtered_annotations = <<>>
    /\ processed_categories = <<>>
    /\ i = 0
    /\ io = [mkdir |-> 0, write |-> 0]

\* a store left by an earlier run, which create_tables discards
PriorDb ==
    [EmptyDb EXCEPT !.categories = <<[id |-> Int_(7), name |-> Str(Chars_cat),
                                      supercategory |-> Str(<<>>)]>>,
                    !.indexes = TRUE]

InitIngestVars ==
    /\ db \in {NoDb, PriorDb}
    /\ src = NoRecords
    /\ BATCH_SIZE \in 1..MaxBatch
    /\ batch = <<>>
    /\ flushes = NoRecords
    /\ pc = <<"main", "create_tables">>
    /\ err = <<>>

\* the ingestion of a document of any content
InitIngest ==
    /\ InitIngestVars
    /\ InitExtractVars
    /\ chunk_size = 1
    /\ fs = NoOutput

NextIngest ==
    \/ CreateTables
    \/ \E k \in 1..3 : \E rec \in AnyRecords[Kinds[k]] : StreamNext(Kinds[k], rec)
    \/ \E k \in 1..3 : StreamCheck(Kinds[k])
    \/ \E k \in 1..3 : StreamEnd(Kinds[k])
    \/ CreateIndexes

SpecIngest == InitIngest /\ [][NextIngest]_vars

\* the rows an arbitrary store may hold (what any writer of the schema of
\* create_tables can leave: ids unique per table, nothing else enforced)
StoredCategories ==
    {[id |-> Int_(1), name |-> Str(Chars_cat), supercategory |-> Str(<<"p">>)],
     [id |-> Int_(2), name |-> Str(Chars_dog), supercategory |-> Str(<<>>)]}

StoredImages ==
    {ImageRow(Image1).v, ImageRow(Image2).v,
     [ImageRow(Image2).v EXCEPT !.id = Int_(3), !.file_name = Str(<<"c">>)]}

StoredAnnotations ==
    {AnnotationRow(Annotation1).v, AnnotationRow(Annotation2).v,
     AnnotationRow(Annotation3).v, AnnotationRow(AnnotationDangling).v,
     \* a bbox cut short and a NULL segmentation
     [AnnotationRow(Annotation1).v EXCEPT !.id = Int_(5),
                                          !.bbox = Text(<<Tok("["), [t |-> "int", n |-> 1]>>),
                                          !.segmentation = Null]}

Tables(rows) == {SetToSeq(S) : S \in {T \in SUBSET rows : Cardinality(T) <= MaxRows}}

\* the image directories tried: not a directory, or its os.listdir
ImageDirs ==
    {[is_dir |-> FALSE, files |-> {}]}
    \cup {[is_dir |-> TRUE, files |-> F] :
            F \in {{}, {Chars_a}, {Chars_a, Chars_b}, {Chars_b, <<"c">>, <<"z">>}}}

\* the (target_category_names, target_category_ids) pairs tried
CategoryFilters ==
    {<< <<>>, <<>> >>,
     << <<Str(Chars_cat)>>, <<>> >>,
     << <<Str(<<"z">>)>>, <<>> >>,
     << <<Str(Chars_cat), Str(<<"z">>)>>, <<>> >>,
     << <<>>, <<Int_(2), Int_(2)>> >>,
     << <<Str(Chars_dog)>>, <<Int_(1)>> >>}

\* the extraction from a store of any content
InitExtract ==
    /\ \E exists \in BOOLEAN :
       \E cats \in Tables(StoredCategories) :
       \E imgs \in Tables(StoredImages) :
       \E anns \in Tables(StoredAnnotations) :
            /\ exists \/ (cats = <<>> /\ imgs = <<>> /\ anns = <<>>)
            /\ db = [exists |-> exists, categories |-> cats, images |-> imgs,
                     annotations |-> anns, indexes |-> TRUE]
    /\ src = NoRecords
    /\ BATCH_SIZE = 1
    /\ batch = <<>>
    /\ flushes = NoRecords
    /\ pc = <<"extract", "start">>
    /\ err = <<>>
    /\ InitExtractVars
    /\ chunk_size \in 1..MaxChunk
    /\ fs \in {NoOutput, OldOutput}

NextExtract ==
    \/ \E dir \in ImageDirs : \E f \in CategoryFilters : ExtractEnter(dir, f[1], f[2])
    \/ SelectImages
    \/ FetchChunk
    \/ SelectCategories
    \/ Save

SpecExtract == InitExtract /\ [][NextExtract]_vars

\* ingestion of a valid COCO document, then the extraction without a
\* category filter
Init ==
    /\ InitIngestVars
    /\ InitExtractVars
    /\ chunk_size \in 1..MaxChunk
    /\ fs = NoOutput

Next ==
    \/ CreateTables
    \/ \E k \in 1..3 : \E rec \in ValidRecords[Kinds[k]] :
            KeepsValid(Kinds[k], rec) /\ StreamNext(Kinds[k], rec)
    \/ \E k \in 1..3 : StreamCheck(Kinds[k])
    \/ \E k \in 1..3 : StreamEnd(Kinds[k])
    \/ CreateIndexes
    \/ \E F \in SUBSET {Chars_a, Chars_b} :
            ExtractEnter([is_dir |-> TRUE, files |-> F], <<>>, <<>>)
    \/ SelectImages
    \/ FetchChunk
    \/ SelectCategories
    \/ Save

Spec == Init /\ [][Next]_vars

\* ------------------------------------------------------------------------
\* Properties of the ingestion (SpecIngest)
\* ------------------------------------------------------------------------
\* where the thread is, or was when the exception escaped
Where == IF err # <<>> THEN err[1].at ELSE pc

Rank(place) ==
    CASE place = <<"main", "create_tables">> -> 0
      [] place[1] = "categories" -> 1
      [] place[1] = "images" -> 2
      [] place[1] = "annotations" -> 3
      [] place = <<"main", "create_indexes">> -> 4
      [] OTHER -> 5

KindRank(kind) == CHOOSE k \in 1..3 : Kinds[k] = kind

\* stream_<kind> has returned
Returned(kind) == Rank(Where) > KindRank(kind)

\* the rows of the first n records of a kind, in the order of the document
RowsOfFirst(kind, n) == [j \in 1..n |-> RowOf(kind, src[kind][j]).v]

\* C2: once stream_<kind> has returned, the table holds the rows of all the
\* records of the array, in the order of the document, whatever BATCH_SIZE is
C2_BatchSizeIndependent ==
    \A k \in 1..3 :
        Returned(Kinds[k]) => db[Kinds[k]] = RowsOfFirst(Kinds[k], Len(src[Kinds[k]]))

\* three annotations were written with a threshold of two: a full batch in
\* the loop and the rest after it
C2_Witness ==
    /\ pc = <<"main", "done">>
    /\ BATCH_SIZE = 2
    /\ Len(src.annotations) = 3
    /\ Len(db.annotations) = 3

\* C8: the batch never holds more than BATCH_SIZE records, no flush is empty,
\* and k * BATCH_SIZE records of a kind are written by exactly k flushes of
\* BATCH_SIZE records each
C8_FlushCount ==
    /\ Len(batch) <= BATCH_SIZE
    /\ \A k \in 1..3 :
          /\ \A j \in 1..Len(flushes[Kinds[k]]) : flushes[Kinds[k]][j] >= 1
          /\ Returned(Kinds[k]) /\ Len(src[Kinds[k]]) % BATCH_SIZE = 0 =>
                flushes[Kinds[k]] =
                    [j \in 1..(Len(src[Kinds[k]]) \div BATCH_SIZE) |-> BATCH_SIZE]

\* four annotations with a threshold of two: two flushes of two
C8_Witness ==
    /\ pc = <<"main", "done">>
    /\ BATCH_SIZE = 2
    /\ Len(src.annotations) = 4
    /\ flushes.annotations = <<2, 2>>

\* the exceptions of the coercions int(...), float(...), json.dumps(...)
\* and of a missing key
CoercionErrors == {"ValueError", "TypeError", "KeyError"}

\* the annotation at 0-based position k has failed its coercion
AnnotationFailedAt(k) ==
    /\ pc = <<"main", "error">>
    /\ err[1].at = <<"annotations", "for">>
    /\ err[1].type \in CoercionErrors
    /\ Len(src.annotations) = k + 1

\* C9: the phases run in the order tables, categories, images, annotations,
\* indexes; when the annotation at position k fails its coercion the run has
\* ended, and the store holds all categories, all images and exactly the
\* first (k div BATCH_SIZE) * BATCH_SIZE annotations, without the indexes
C9_FailFastCommittedPrefix ==
    /\ Rank(Where) >= 1 /\ src.categories = <<>> => db.categories = <<>>
    /\ Rank(Where) <= 1 => src.images = <<>> /\ db.images = <<>>
    /\ Rank(Where) <= 2 => src.annotations = <<>> /\ db.annotations = <<>>
    /\ db.indexes => Rank(Where) \in {0, 5}
    /\ \A k \in 0..MaxRecords :
          AnnotationFailedAt(k) =>
              /\ db.categories = RowsOfFirst("categories", Len(src.categories))
              /\ db.images = RowsOfFirst("images", Len(src.images))
              /\ db.annotations =
                    RowsOfFirst("annotations", (k \div BATCH_SIZE) * BATCH_SIZE)
              /\ ~db.indexes
              /\ ~ENABLED NextIngest

\* the fourth annotation fails with a threshold of two: two are committed,
\* the third is lost with the batch
C9_Witness ==
    /\ AnnotationFailedAt(3)
    /\ BATCH_SIZE = 2
    /\ Len(db.annotations) = 2
    /\ Len(batch) = 1
    /\ db.categories # <<>>
    /\ db.images # <<>>

\* ------------------------------------------------------------------------
\* Properties of the extraction (SpecExtract)
\* ------------------------------------------------------------------------
\* the document written by this run
Written == io.write > 0
Output == fs.file[1]

\* the loop over the images table has run to its end
ImagesSelected ==
    \/ pc \in {<<"extract", "annotations">>, <<"extract", "save">>, <<"extract", "done">>}
    \/ pc = <<"extract", "error">> /\ err[1].type = "RuntimeError"

SeqToBag(q) == [x \in SeqToSet(q) |-> Cardinality({j \in 1..Len(q) : q[j] = x})]

\* C3: when the chunk loop has covered the first n ids, filtered_annotations
\* is, as a multiset, the result of the one query over those n ids; at the
\* end of the loop, of the one query over all the filtered ids
C3_ChunkSizeIndependent ==
    pc \in {<<"extract", "annotations">>, <<"extract", "save">>, <<"extract", "done">>} =>
        SeqToBag(filtered_annotations) =
            SeqToBag(ChunkAnnotations(
                db.annotations,
                SubSeq(filtered_image_ids, 1, Min(i, Len(filtered_image_ids))),
                target_category_ids))

\* the loop is over, it took more than one chunk, and annotations of two
\* different chunks were returned
C3_Witness ==
    /\ pc = <<"extract", "save">>
    /\ Len(filtered_image_ids) > chunk_size
    /\ \E a, b \in SeqToSet(filtered_annotations) :
          \E m, n \in 1..Len(filtered_image_ids) :
              /\ (m - 1) \div chunk_size # (n - 1) \div chunk_size
              /\ a.image_id = filtered_image_ids[m]
              /\ b.image_id = filtered_image_ids[n]

\* the ids of the stored categories that carry one of the requested names
IdsOfNames(names) ==
    {db.categories[j].id : j \in {l \in 1..Len(db.categories) :
                                     db.categories[l].name \in SeqToSet(names)}}

\* C4: with target_category_names given, every annotation and every category
\* of the written document has an id among the ids of the requested names
\* that the store holds
C4_FilterIsResolvedNames ==
    Written /\ target_category_names # <<>> =>
        /\ \A j \in 1..Len(Output.annotations) :
              Output.annotations[j].category_id \in IdsOfNames(target_category_names)
        /\ \A j \in 1..Len(Output.categories) :
              Output.categories[j].id \in IdsOfNames(target_category_names)

\* no stored image has a base file name among the files of the directory
NoStoredImagePresent ==
    \A j \in 1..Len(db.images) :
        db.images[j].file_name.k = "str" =>
            PathName(db.images[j].file_name.s) \notin target_images

\* C5: a run in which no stored image is present in the target directory
\* ends in an error, without a mkdir and without a write of the patch file
C5_NoMatchIsFatal ==
    pc[1] = "extract" /\ pc[2] \notin {"start", "images"} /\ NoStoredImagePresent =>
        /\ pc = <<"extract", "error">>
        /\ io = [mkdir |-> 0, write |-> 0]
        /\ fs \in {NoOutput, OldOutput}

\* images are stored, files are present, none matches, and a patch file of
\* an earlier run is there to be overwritten
C5_Witness ==
    /\ pc = <<"extract", "error">>
    /\ err[1].type = "RuntimeError"
    /\ db.images # <<>>
    /\ target_images # {}
    /\ fs = OldOutput

\* b is the final component of path p: the part after the last separator
IsFinalComponent(b, p) ==
    \E n \in 0..Len(p) :
        /\ b = SubSeq(p, n + 1, Len(p))
        /\ \A j \in 1..Len(b) : b[j] # "/"
        /\ n = 0 \/ p[n] = "/"

\* the ids of the stored images whose final file name component is in P
RetainedUnder(P) ==
    {db.images[j].id : j \in {l \in 1..Len(db.images) :
                                 \E b \in P : IsFinalComponent(b, db.images[l].file_name.s)}}

FileNameUniverse == UNION {d.files : d \in ImageDirs}

\* C6: an image is retained exactly when the final component of its stored
\* file_name is in the present set; so a smaller present set retains no image
\* this run dropped, and a larger one drops no image this run retained
C6_ExistenceFilterMonotonic ==
    ImagesSelected =>
        /\ SeqToSet(filtered_image_ids) = RetainedUnder(target_images)
        /\ \A P \in SUBSET FileNameUniverse :
              /\ P \subseteq target_images =>
                    RetainedUnder(P) \subseteq SeqToSet(filtered_image_ids)
              /\ target_images \subseteq P =>
                    SeqToSet(filtered_image_ids) \subseteq RetainedUnder(P)

\* an image stored with a directory in its file_name is retained by its
\* base name, another stored image is dropped
C6_Witness ==
    /\ pc = <<"extract", "annotations">>
    /\ \E j \in 1..Len(db.images) :
          /\ db.images[j].file_name = Str(Chars_dir_b)
          /\ db.images[j].id \in SeqToSet(filtered_image_ids)
    /\ \E j \in 1..Len(db.images) : db.images[j].id \notin SeqToSet(filtered_image_ids)

\* the stored row an emitted annotation was read from
RowOfAnnotation(ann) ==
    db.annotations[CHOOSE j \in 1..Len(db.annotations) : db.annotations[j].id = ann.id]

\* C7: no annotation is emitted from a row whose bbox or segmentation does
\* not decode, and such a run does not reach the end of the extraction
C7_DecodeFailureSurfaced ==
    \A j \in 1..Len(filtered_annotations) :
        /\ json_loads(RowOfAnnotation(filtered_annotations[j]).bbox).ok
        /\ json_loads(RowOfAnnotation(filtered_annotations[j]).segmentation).ok

\* C10: every annotation collected, and every annotation of the written
\* document, has the id of a collected (written) image as its image_id
C10_ReferentialClosure ==
    /\ \A j \in 1..Len(filtered_annotations) :
          filtered_annotations[j].image_id \in
              {filtered_image_info[l].id : l \in 1..Len(filtered_image_info)}
    /\ Written =>
          \A j \in 1..Len(Output.annotations) :
              Output.annotations[j].image_id \in
                  {Output.images[l].id : l \in 1..Len(Output.images)}

\* a document with an annotation was written from a store that also holds
\* an annotation of no stored image and an image that is not in the document
C10_Witness ==
    /\ pc = <<"extract", "done">>
    /\ Output.annotations # <<>>
    /\ target_category_ids # <<>>
    /\ \E j \in 1..Len(db.annotations) :
          db.annotations[j].image_id \notin IdsOf(db.images)
    /\ \E j \in 1..Len(db.images) : db.images[j].id \notin IdsOf(Output.images)

\* ------------------------------------------------------------------------
\* Properties of ingestion followed by extraction (Spec)
\* ------------------------------------------------------------------------
RECURSIVE Canon(_)
\* a value with every number replaced by the float of the same value
Canon(v) ==
    CASE v.k = "int" -> Float(10 * v.n)
      [] v.k = "dec" -> Float(v.n)
      [] v.k = "list" -> List([j \in 1..Len(v.items) |-> Canon(v.items[j])])
      [] v.k = "dict" -> Dict([key \in DOMAIN v.m |-> Canon(v.m[key])])
      [] OTHER -> v

\* the final path component of p
FinalComponent(p) ==
    CHOOSE b \in {SubSeq(p, n + 1, Len(p)) : n \in 0..Len(p)} : IsFinalComponent(b, p)

\* chars without its leading and trailing blanks
Stripped(chars) ==
    CHOOSE b \in {SubSeq(chars, m, n) : m \in 1..(Len(chars) + 1), n \in 0..Len(chars)} :
        \E m \in 1..(Len(chars) + 1), n \in 0..Len(chars) :
            /\ b = SubSeq(chars, m, n)
            /\ \A j \in 1..(m - 1) : chars[j] = " "
            /\ \A j \in (n + 1)..Len(chars) : chars[j] = " "
            /\ b # <<>> => b[1] # " " /\ b[Len(b)] # " "

\* the target directory holds the file of every image of the document
DirHoldsEveryImage ==
    \A j \in 1..Len(src.images) :
        FinalComponent(src.images[j].file_name.s) \in target_images

\* the output record of the same id agrees with d on every key d has,
\* numbers compared by value
Reproduced(d, outs) ==
    \E l \in 1..Len(outs) :
        /\ outs[l].id = d.id
        /\ \A key \in DOMAIN d : Canon(outs[l][key]) = Canon(d[key])

SameRecords(ds, outs) ==
    /\ Len(outs) = Len(ds)
    /\ \A j \in 1..Len(ds) : Reproduced(ds[j], outs)

\* C1 as stated: with every image's file in the target directory and no
\* category filter, the written document holds the images, annotations and
\* categories of the ingested document, field by field
C1_RoundTripExact ==
    pc = <<"extract", "done">> /\ DirHoldsEveryImage =>
        /\ SameRecords(src.images, Output.images)
        /\ SameRecords(src.annotations, Output.annotations)
        /\ SameRecords(src.categories, Output.categories)

\* what the round trip makes of the records of the document
ExpectedImage(img) ==
    [id |-> img.id,
     file_name |-> Str(FinalComponent(img.file_name.s)),
     width |-> img.width,
     height |-> img.height,
     license |-> Get(img, "license", Null),
     flickr_url |-> Get(img, "flickr_url", Null),
     coco_url |-> Get(img, "coco_url", Null),
     date_captured |-> Get(img, "date_captured", Null)]

ExpectedCategory(cat) ==
    [id |-> cat.id,
     name |-> Str(Stripped(cat.name.s)),
     supercategory |-> Get(cat, "supercategory", Str(<<>>))]

ExpectedAnnotation(ann) ==
    [id |-> ann.id,
     image_id |-> ann.image_id,
     category_id |-> ann.category_id,
     bbox |-> Canon(Get(ann, "bbox", List(<<>>))),
     area |-> Canon(Get(ann, "area", Float(0))),
     iscrowd |-> Get(ann, "iscrowd", Int_(0)),
     segmentation |-> Canon(Get(ann, "segmentation", List(<<>>)))]

CanonAnnotation(ann) ==
    [ann EXCEPT !.bbox = Canon(@), !.area = Canon(@), !.segmentation = Canon(@)]

\* C1 as amended: the ingestion of a valid document never fails; the
\* extraction fails only when no image of the document has its file in the
\* directory; and with every image's file there, the written document holds
\* exactly the document's images with file_name cut to its final path
\* component, its categories with the name stripped, and its annotations
\* with numbers equal by value, every absent optional key at its default
C1_RoundTripNormalized ==
    /\ pc # <<"main", "error">>
    /\ pc = <<"extract", "error">> =>
          /\ err[1].type = "RuntimeError"
          /\ \A j \in 1..Len(src.images) :
                FinalComponent(src.images[j].file_name.s) \notin target_images
    /\ pc = <<"extract", "done">> /\ DirHoldsEveryImage =>
          /\ Len(Output.images) = Len(src.images)
          /\ Len(Output.annotations) = Len(src.annotations)
          /\ Len(Output.categories) = Len(src.categories)
          /\ SeqToSet(Output.images) =
                {ExpectedImage(src.images[j]) : j \in 1..Len(src.images)}
          /\ {CanonAnnotation(Output.annotations[j]) : j \in 1..Len(Output.annotations)} =
                {ExpectedAnnotation(src.annotations[j]) : j \in 1..Len(src.annotations)}
          /\ SeqToSet(Output.categories) =
                {ExpectedCategory(src.categories[j]) : j \in 1..Len(src.categories)}

\* a document with a padded category name, a file name with a directory, a
\* decimal box, a run-length segmentation and an annotation without the
\* optional keys went through both programs with more than one chunk
C1_Witness ==
    /\ pc = <<"extract", "done">>
    /\ DirHoldsEveryImage
    /\ Category2 \in SeqToSet(src.categories)
    /\ Image2 \in SeqToSet(src.images)
    /\ {Annotation2, Annotation3} \subseteq SeqToSet(src.annotations)
    /\ Len(Output.annotations) = 2
    /\ chunk_size < Len(filtered_image_ids)

====
